---- MODULE Spec2Model ----
(***************************************************************************)
(* Pointer-level model of the lab0-c queue (queue.c) and of list_sort.c.   *)
(* The heap is a pair of functions next/prev over node handles: handle 0   *)
(* is the sentinel allocated by q_new, handles 1..MaxNodes are the         *)
(* list_head embedded in each element_t, NULL is the null pointer.         *)
(* Every queue operation is one atomic action that runs the whole C        *)
(* function; list_sort is split at its loop boundaries.                    *)
(*                                                                         *)
(* Handles stand for addresses, which the code only compares for equality. *)
(* States are therefore kept up to renaming of the element handles: on     *)
(* entry to an operation the elements of the ring are named 1, 2, ... in   *)
(* ring order (Entry), malloc returns the first unused handle, and the     *)
(* storage of elements that left the ring is forgotten.                    *)
(***************************************************************************)
EXTENDS Integers, Sequences, FiniteSets, TLC

\* Bounds of the model
MaxNodes == 6
MaxVal == 2
MaxTail == 520
MaxTaken == 2

\* Handles
NULL == -1
HEAD == 0

Elems == 1..MaxNodes
Nodes == 0..MaxNodes
Values == 1..MaxVal

VARIABLES
    head,       \* the queue handle held by the caller: HEAD or NULL
    next,       \* struct list_head.next of every handle
    prev,       \* struct list_head.prev of every handle
    value,      \* element_t.value of every element (0: no such element)
    released,   \* q_release_element calls made by lastOp, per element
    lastOp,     \* name of the operation that ran last
    descend,    \* the flag / comparator direction given to lastOp
    ret,        \* return value of lastOp (bool as 0/1, void as 0)
    before,     \* ring order (head.next .. head.prev) on entry to lastOp
    cmpHead,    \* lastOp passed the sentinel's container to strcmp
    pc,         \* position inside list_sort ("idle" outside of it)
    list,       \* list_sort local: list
    pending,    \* list_sort local: pending
    count,      \* list_sort local: count
    mergeArgs,  \* the two runs handed to merge / merge_final by the last step
    mf_tail,    \* merge_final local: tail
    mf_b,       \* merge_final local: b
    mf_count,   \* merge_final local: count (uint8_t)
    copied,     \* nodes the tail-copy loop of merge_final has passed
    calls       \* the cmp calls of the tail-copy loop: <<a, b, value returned>>

vars == <<head, next, prev, value, released, lastOp, descend, ret,
          before, cmpHead, pc, list, pending, count, mergeArgs,
          mf_tail, mf_b, mf_count, copied, calls>>

lsVars == <<pc, list, pending, count>>

mfVars == <<mf_tail, mf_b, mf_count, copied, calls>>

----------------------------------------------------------------------------
\* Reading chains and rings

\* Nodes met from n along nx until stop or NULL is reached (at most k steps)
RECURSIVE Walk(_, _, _, _)
Walk(nx, n, stop, k) ==
    IF n = NULL \/ n = stop \/ k = 0 THEN <<>>
    ELSE <<n>> \o Walk(nx, nx[n], stop, k - 1)

\* A null-terminated chain read from its first node
Chain(nx, n) == Walk(nx, n, NULL, MaxNodes + 1)

\* head.next .. head.prev of a ring read through nx
RingOf(nx) == Walk(nx, nx[HEAD], HEAD, MaxNodes + 1)

Ring == IF head = NULL THEN <<>> ELSE RingOf(next)

\* strcmp on the strings of two elements, val being element_t.value
strcmp(val, a, b) == IF val[a] < val[b] THEN -1
                     ELSE IF val[a] > val[b] THEN 1 ELSE 0

----------------------------------------------------------------------------
\* list.h primitives on a heap record h = [next, prev, value, released, cmpHead]

INIT_LIST_HEAD(h, n) ==
    [h EXCEPT !.next[n] = n, !.prev[n] = n]

list_empty(h, hd) == h.next[hd] = hd

list_add(h, n, hd) ==
    LET nx == h.next[hd] IN
    [h EXCEPT !.prev = [h.prev EXCEPT ![nx] = n, ![n] = hd],
              !.next = [h.next EXCEPT ![n] = nx, ![hd] = n]]

list_add_tail(h, n, hd) ==
    LET pv == h.prev[hd] IN
    [h EXCEPT !.prev = [h.prev EXCEPT ![hd] = n, ![n] = pv],
              !.next = [h.next EXCEPT ![n] = hd, ![pv] = n]]

\* The links of the removed node are left unusable
list_del(h, n) ==
    LET nx == h.next[n]
        pv == h.prev[n] IN
    [h EXCEPT !.prev = [h.prev EXCEPT ![nx] = pv, ![n] = NULL],
              !.next = [h.next EXCEPT ![pv] = nx, ![n] = NULL]]

list_del_init(h, n) == INIT_LIST_HEAD(list_del(h, n), n)

list_move(h, n, hd) == list_add(list_del(h, n), n, hd)

\* Frees the element and its value: its storage no longer exists
q_release_element(h, n) ==
    [h EXCEPT !.released[n] = @ + 1, !.next[n] = NULL, !.prev[n] = NULL]

\* The heap an operation starts from: the elements of the ring are handles
\* 1..Len(Ring) in ring order, every other element handle is unused
Entry ==
    LET r == Ring
        j == Len(r)
    IN [next |-> [n \in Nodes |->
                    IF head = NULL THEN NULL
                    ELSE IF n = HEAD THEN (IF j = 0 THEN HEAD ELSE 1)
                    ELSE IF n < j THEN n + 1
                    ELSE IF n = j THEN HEAD ELSE NULL],
        prev |-> [n \in Nodes |->
                    IF head = NULL THEN NULL
                    ELSE IF n = HEAD THEN j
                    ELSE IF n <= j THEN n - 1 ELSE NULL],
        value |-> [n \in Elems |-> IF n <= j THEN value[r[n]] ELSE 0],
        released |-> [n \in Elems |-> 0],
        cmpHead |-> FALSE]

EntryRing == [i \in 1..Len(Ring) |-> i]

\* Install the heap left by an operation
Install(h) ==
    /\ next' = h.next
    /\ prev' = h.prev
    /\ value' = h.value
    /\ released' = h.released
    /\ cmpHead' = h.cmpHead

\* Bookkeeping common to every completed queue operation
Done(op, d, r) ==
    /\ lastOp' = op
    /\ descend' = d
    /\ ret' = r
    /\ before' = EntryRing
    /\ mergeArgs' = <<>>
    /\ UNCHANGED lsVars
    /\ UNCHANGED mfVars

\* malloc of an element_t and strdup of its string
NewElement(h, s) == [h EXCEPT !.value[Len(Ring) + 1] = s]

----------------------------------------------------------------------------
Init ==
    /\ head = HEAD
    /\ next = [n \in Nodes |-> IF n = HEAD THEN HEAD ELSE NULL]
    /\ prev = [n \in Nodes |-> IF n = HEAD THEN HEAD ELSE NULL]
    /\ value = [n \in Elems |-> 0]
    /\ released = [n \in Elems |-> 0]
    /\ lastOp = "q_new"
    /\ descend = FALSE
    /\ ret = 0
    /\ before = <<>>
    /\ cmpHead = FALSE
    /\ pc = "idle"
    /\ list = NULL
    /\ pending = NULL
    /\ count = 0
    /\ mergeArgs = <<>>
    /\ mf_tail = NULL
    /\ mf_b = NULL
    /\ mf_count = 0
    /\ copied = 0
    /\ calls = <<>>

----------------------------------------------------------------------------
\* q_new: allocate and initialise a sentinel
q_new ==
    /\ pc = "idle"
    /\ head = NULL
    /\ head' = HEAD
    /\ Install(INIT_LIST_HEAD(Entry, HEAD))
    /\ Done("q_new", FALSE, 0)

\* q_free: release every element, then the sentinel
RECURSIVE q_free_loop(_, _, _)
q_free_loop(h, pos, nx) ==
    IF pos = HEAD THEN h
    ELSE LET h1 == q_release_element(h, pos)
         IN q_free_loop(h1, nx, h1.next[nx])

q_free_heap(h) ==
    LET pos == h.next[HEAD]
        h1 == q_free_loop(h, pos, h.next[pos])
    IN [h1 EXCEPT !.next[HEAD] = NULL, !.prev[HEAD] = NULL]

q_free ==
    /\ pc = "idle"
    /\ IF head = NULL
       THEN /\ Install(Entry)
            /\ UNCHANGED head
       ELSE /\ Install(q_free_heap(Entry))
            /\ head' = NULL
    /\ Done("q_free", FALSE, 0)

\* q_insert_head / q_insert_tail: ok is the outcome of malloc and strdup
q_insert_head(s, ok) ==
    /\ pc = "idle"
    /\ Len(Ring) < MaxNodes
    /\ IF head = NULL \/ ~ok
       THEN /\ Install(Entry)
            /\ Done("q_insert_head", FALSE, 0)
       ELSE /\ Install(list_add(NewElement(Entry, s), Len(Ring) + 1, HEAD))
            /\ Done("q_insert_head", FALSE, 1)
    /\ UNCHANGED head

q_insert_tail(s, ok) ==
    /\ pc = "idle"
    /\ Len(Ring) < MaxNodes
    /\ IF head = NULL \/ ~ok
       THEN /\ Install(Entry)
            /\ Done("q_insert_tail", FALSE, 0)
       ELSE /\ Install(list_add_tail(NewElement(Entry, s), Len(Ring) + 1, HEAD))
            /\ Done("q_insert_tail", FALSE, 1)
    /\ UNCHANGED head

\* q_remove_head / q_remove_tail: unlink and hand the element to the caller
\* (the copy of the string into the caller's buffer sp touches no queue state)
q_remove_head_no_empty_check ==
    /\ pc = "idle"
    /\ IF head = NULL
       THEN /\ Install(Entry)
            /\ Done("q_remove_head", FALSE, NULL)
       ELSE /\ Install(list_del(Entry, Entry.next[HEAD]))
            /\ Done("q_remove_head", FALSE, Entry.next[HEAD])
    /\ UNCHANGED head

q_remove_head ==
    /\ pc = "idle"
    /\ IF head = NULL \/ list_empty(Entry, HEAD)
       THEN /\ Install(Entry)
            /\ Done("q_remove_head", FALSE, NULL)
       ELSE /\ Install(list_del(Entry, Entry.next[HEAD]))
            /\ Done("q_remove_head", FALSE, Entry.next[HEAD])
    /\ UNCHANGED head

q_remove_tail ==
    /\ pc = "idle"
    /\ IF head = NULL \/ list_empty(Entry, HEAD)
       THEN /\ Install(Entry)
            /\ Done("q_remove_tail", FALSE, NULL)
       ELSE /\ Install(list_del(Entry, Entry.prev[HEAD]))
            /\ Done("q_remove_tail", FALSE, Entry.prev[HEAD])
    /\ UNCHANGED head

\* q_size: count the nodes between the sentinel and itself
RECURSIVE q_size_loop(_, _, _)
q_size_loop(h, li, len) ==
    IF li = HEAD THEN len ELSE q_size_loop(h, h.next[li], len + 1)

q_size ==
    /\ pc = "idle"
    /\ Install(Entry)
    /\ Done("q_size", FALSE,
            IF head = NULL THEN 0 ELSE q_size_loop(Entry, Entry.next[HEAD], 0))
    /\ UNCHANGED head

----------------------------------------------------------------------------
\* q_delete_mid: slow/fast walk over the ring, then unlink and release slow
RECURSIVE q_delete_mid_walk_lower(_, _, _)
q_delete_mid_walk_lower(h, slow, fast) ==
    IF h.next[fast] # HEAD /\ h.next[h.next[fast]] # HEAD
    THEN q_delete_mid_walk_lower(h, h.next[slow], h.next[h.next[fast]])
    ELSE slow

RECURSIVE q_delete_mid_walk(_, _, _)
q_delete_mid_walk(h, slow, fast) ==
    IF fast # HEAD /\ h.next[fast] # HEAD
    THEN q_delete_mid_walk(h, h.next[slow], h.next[h.next[fast]])
    ELSE slow

q_delete_mid_heap_leak(h) ==
    LET to_delete == q_delete_mid_walk(h, h.next[HEAD], h.next[HEAD])
    IN list_del_init(h, to_delete)

q_delete_mid_heap(h) ==
    LET to_delete == q_delete_mid_walk(h, h.next[HEAD], h.next[HEAD])
    IN q_release_element(list_del_init(h, to_delete), to_delete)

q_delete_mid ==
    /\ pc = "idle"
    /\ IF head = NULL \/ list_empty(Entry, HEAD)
       THEN /\ Install(Entry)
            /\ Done("q_delete_mid", FALSE, 0)
       ELSE /\ Install(q_delete_mid_heap(Entry))
            /\ Done("q_delete_mid", FALSE, 1)
    /\ UNCHANGED head

\* q_delete_dup: list_for_each_entry_safe with the is_dup flag
q_delete_dup_guard_none(h, curr) == TRUE

q_delete_dup_guard(h, curr) == h.next[curr] # HEAD

\* strcmp(curr_ele->value, next_ele->value) == 0; the container of the
\* sentinel holds no string, so the outcome of reading it is arbitrary
q_delete_dup_same(h, curr, nx, garbage) ==
    IF nx = HEAD THEN garbage ELSE strcmp(h.value, curr, nx) = 0

RECURSIVE q_delete_dup_loop(_, _, _, _, _)
q_delete_dup_loop(h, curr, nx, is_dup, garbage) ==
    IF curr = HEAD THEN h
    ELSE
      LET compared == q_delete_dup_guard(h, curr)
          same == compared /\ q_delete_dup_same(h, curr, nx, garbage)
          h0 == [h EXCEPT !.cmpHead = @ \/ (compared /\ nx = HEAD)]
          h1 == IF same \/ is_dup
                THEN q_release_element(list_del(h0, curr), curr)
                ELSE h0
          dup == IF same THEN TRUE ELSE IF is_dup THEN FALSE ELSE is_dup
      IN q_delete_dup_loop(h1, nx, h1.next[nx], dup, garbage)

q_delete_dup_heap(h, garbage) ==
    LET curr == h.next[HEAD]
    IN q_delete_dup_loop(h, curr, h.next[curr], FALSE, garbage)

q_delete_dup(garbage) ==
    /\ pc = "idle"
    /\ IF head = NULL \/ list_empty(Entry, HEAD)
       THEN /\ Install(Entry)
            /\ Done("q_delete_dup", FALSE, 0)
       ELSE /\ Install(q_delete_dup_heap(Entry, garbage))
            /\ Done("q_delete_dup", FALSE, 1)
    /\ UNCHANGED head

\* q_swap: move first behind second, pair by pair
q_swap_loop_once(h, first) ==
    IF first # HEAD /\ h.next[first] # HEAD
    THEN list_move(h, first, h.next[first])
    ELSE h

RECURSIVE q_swap_loop(_, _)
q_swap_loop(h, first) ==
    IF first # HEAD /\ h.next[first] # HEAD
    THEN LET second == h.next[first]
             h1 == list_move(h, first, second)
         IN q_swap_loop(h1, h1.next[first])
    ELSE h

q_swap ==
    /\ pc = "idle"
    /\ IF head = NULL \/ list_empty(Entry, HEAD)
       THEN Install(Entry)
       ELSE Install(q_swap_loop(Entry, Entry.next[HEAD]))
    /\ Done("q_swap", FALSE, 0)
    /\ UNCHANGED head

\* q_reverse: exchange next and prev of every node, sentinel included
RECURSIVE q_reverse_loop_no_prev(_, _, _)
q_reverse_loop_no_prev(h, pre, curr) ==
    LET nex == h.next[curr]
        h1 == [h EXCEPT !.next[curr] = pre]
    IN IF nex # HEAD THEN q_reverse_loop_no_prev(h1, curr, nex) ELSE h1

RECURSIVE q_reverse_loop(_, _, _)
q_reverse_loop(h, pre, curr) ==
    LET nex == h.next[curr]
        h1 == [h EXCEPT !.next[curr] = pre, !.prev[curr] = nex]
    IN IF nex # HEAD THEN q_reverse_loop(h1, curr, nex) ELSE h1

q_reverse ==
    /\ pc = "idle"
    /\ IF head = NULL \/ list_empty(Entry, HEAD)
       THEN Install(Entry)
       ELSE Install(q_reverse_loop(Entry, Entry.prev[HEAD], HEAD))
    /\ Done("q_reverse", FALSE, 0)
    /\ UNCHANGED head

\* q_ascend / q_descend: backward walk from the tail
q_ascend_drop_ties(h, node, pv) == strcmp(h.value, node, pv) <= 0

q_ascend_drop(h, node, pv) == strcmp(h.value, node, pv) < 0

q_descend_drop(h, node, pv) == strcmp(h.value, node, pv) > 0

RECURSIVE q_ascend_loop(_, _)
q_ascend_loop(h, node) ==
    IF h.prev[node] # HEAD
    THEN LET pv == h.prev[node]
         IN IF q_ascend_drop(h, node, pv)
            THEN q_ascend_loop(q_release_element(list_del(h, pv), pv), node)
            ELSE q_ascend_loop(h, pv)
    ELSE h

RECURSIVE q_descend_loop(_, _)
q_descend_loop(h, node) ==
    IF h.prev[node] # HEAD
    THEN LET pv == h.prev[node]
         IN IF q_descend_drop(h, node, pv)
            THEN q_descend_loop(q_release_element(list_del(h, pv), pv), node)
            ELSE q_descend_loop(h, pv)
    ELSE h

q_ascend ==
    /\ pc = "idle"
    /\ IF head = NULL \/ list_empty(Entry, HEAD)
       THEN Install(Entry)
       ELSE Install(q_ascend_loop(Entry, Entry.prev[HEAD]))
    /\ Done("q_ascend", FALSE, 0)
    /\ UNCHANGED head

q_descend ==
    /\ pc = "idle"
    /\ IF head = NULL \/ list_empty(Entry, HEAD)
       THEN Install(Entry)
       ELSE Install(q_descend_loop(Entry, Entry.prev[HEAD]))
    /\ Done("q_descend", FALSE, 0)
    /\ UNCHANGED head

----------------------------------------------------------------------------
\* mergeTwo: merge two null-terminated chains through a local head node;
\* curr = NULL stands for the address of that local node
mergeTwo_takes_left_inverted(val, left, right) == strcmp(val, left, right) > 0

mergeTwo_takes_left(val, left, right) == strcmp(val, left, right) < 0

RECURSIVE mergeTwo_loop(_, _, _, _, _, _)
mergeTwo_loop(val, nx, first, curr, left, right) ==
    LET link(n) == IF curr = NULL THEN nx ELSE [nx EXCEPT ![curr] = n]
        fst(n) == IF curr = NULL THEN n ELSE first
    IN IF left # NULL /\ right # NULL
       THEN IF mergeTwo_takes_left(val, left, right)
            THEN mergeTwo_loop(val, link(left), fst(left), left,
                               link(left)[left], right)
            ELSE mergeTwo_loop(val, link(right), fst(right), right,
                               left, link(right)[right])
       ELSE IF left # NULL THEN [next |-> link(left), ret |-> fst(left)]
       ELSE IF right # NULL THEN [next |-> link(right), ret |-> fst(right)]
       ELSE [next |-> nx, ret |-> first]

mergeTwo(val, nx, left, right) ==
    IF left = NULL /\ right = NULL THEN [next |-> nx, ret |-> NULL]
    ELSE mergeTwo_loop(val, nx, NULL, NULL, left, right)

\* q_mergeSort: split at the slow pointer, sort both halves, merge
RECURSIVE q_mergeSort_slow_single(_, _, _)
q_mergeSort_slow_single(nx, slow, fast) ==
    IF fast # NULL
    THEN q_mergeSort_slow_single(nx, nx[slow], nx[fast])
    ELSE slow

RECURSIVE q_mergeSort_slow(_, _, _)
q_mergeSort_slow(nx, slow, fast) ==
    IF fast # NULL /\ nx[fast] # NULL
    THEN q_mergeSort_slow(nx, nx[slow], nx[nx[fast]])
    ELSE slow

RECURSIVE q_mergeSort(_, _, _)
q_mergeSort(val, nx, hd) ==
    IF nx[hd] = NULL THEN [next |-> nx, ret |-> hd]
    ELSE LET slow == q_mergeSort_slow(nx, hd, nx[hd])
             mid == nx[slow]
             left == q_mergeSort(val, [nx EXCEPT ![slow] = NULL], hd)
             right == q_mergeSort(val, left.next, mid)
         IN mergeTwo(val, right.next, left.ret, right.ret)

\* The pass of q_sort that restores prev and closes the ring
RECURSIVE q_sort_relink_no_prev(_, _, _)
q_sort_relink_no_prev(h, curr, nex) ==
    IF nex # NULL
    THEN q_sort_relink_no_prev(h, nex, h.next[nex])
    ELSE [h EXCEPT !.next[curr] = HEAD, !.prev[HEAD] = curr]

RECURSIVE q_sort_relink(_, _, _)
q_sort_relink(h, curr, nex) ==
    IF nex # NULL
    THEN q_sort_relink([h EXCEPT !.prev[nex] = curr], nex, h.next[nex])
    ELSE [h EXCEPT !.next[curr] = HEAD, !.prev[HEAD] = curr]

\* The descend flag d is not read by the function
q_sort_heap(h, d) ==
    LET h1 == [h EXCEPT !.next[h.prev[HEAD]] = NULL]
        m == q_mergeSort(h1.value, h1.next, h1.next[HEAD])
        h2 == [h1 EXCEPT !.next = [m.next EXCEPT ![HEAD] = m.ret]]
    IN q_sort_relink(h2, HEAD, h2.next[HEAD])

q_sort(d) ==
    /\ pc = "idle"
    /\ IF head = NULL \/ list_empty(Entry, HEAD)
       THEN Install(Entry)
       ELSE Install(q_sort_heap(Entry, d))
    /\ Done("q_sort", d, 0)
    /\ UNCHANGED head

----------------------------------------------------------------------------
\* The comparator handed to list_sort: element values, in the order asked
cmp(a, b) == IF descend THEN strcmp(value, b, a) ELSE strcmp(value, a, b)

\* merge: tl = NULL stands for the address of the local head pointer
merge_takes_a_inverted(a, b) == cmp(a, b) > 0

merge_takes_a_strict(a, b) == cmp(a, b) < 0

merge_takes_a(a, b) == cmp(a, b) <= 0

RECURSIVE merge_loop(_, _, _, _, _)
merge_loop(nx, hd, tl, a, b) ==
    LET set(n) == IF tl = NULL THEN nx ELSE [nx EXCEPT ![tl] = n]
        first(n) == IF tl = NULL THEN n ELSE hd
    IN IF merge_takes_a(a, b)
       THEN LET nx1 == set(a)
            IN IF nx1[a] = NULL
               THEN [next |-> [nx1 EXCEPT ![a] = b], ret |-> first(a)]
               ELSE merge_loop(nx1, first(a), a, nx1[a], b)
       ELSE LET nx1 == set(b)
            IN IF nx1[b] = NULL
               THEN [next |-> [nx1 EXCEPT ![b] = a], ret |-> first(b)]
               ELSE merge_loop(nx1, first(b), b, a, nx1[b])

merge(nx, a, b) == merge_loop(nx, NULL, NULL, a, b)

\* merge_final: the comparing loop, then the tail copy, then closing the ring
RECURSIVE merge_final_tail(_, _, _, _)
merge_final_tail(h, tail, b, cnt) ==
    LET c1 == (cnt + 1) % 256
        h1 == [h EXCEPT !.prev[b] = tail]
    IN IF h1.next[b] # NULL
       THEN merge_final_tail(h1, b, h1.next[b], c1)
       ELSE [h1 EXCEPT !.next[b] = HEAD, !.prev[HEAD] = b]

RECURSIVE merge_final_loop(_, _, _, _)
merge_final_loop(h, tail, a, b) ==
    IF merge_takes_a(a, b)
    THEN LET h1 == [h EXCEPT !.next[tail] = a, !.prev[a] = tail]
         IN IF h1.next[a] = NULL
            THEN merge_final_tail([h1 EXCEPT !.next[a] = b], a, b, 0)
            ELSE merge_final_loop(h1, a, h1.next[a], b)
    ELSE LET h1 == [h EXCEPT !.next[tail] = b, !.prev[b] = tail]
         IN IF h1.next[b] = NULL
            THEN merge_final_tail([h1 EXCEPT !.next[b] = a], b, a, 0)
            ELSE merge_final_loop(h1, b, a, h1.next[b])

merge_final(h, a, b) == merge_final_loop(h, HEAD, a, b)

\* list_sort up to the main loop
list_sort_start(d) ==
    /\ pc = "idle"
    /\ head # NULL
    /\ lastOp' = "list_sort"
    /\ descend' = d
    /\ ret' = 0
    /\ before' = EntryRing
    /\ mergeArgs' = <<>>
    /\ pending' = NULL
    /\ count' = 0
    /\ IF Entry.next[HEAD] = Entry.prev[HEAD]
       THEN /\ Install(Entry)
            /\ UNCHANGED <<pc, list>>
       ELSE /\ Install([Entry EXCEPT !.next[Entry.prev[HEAD]] = NULL])
            /\ list' = Entry.next[HEAD]
            /\ pc' = "loop"
    /\ UNCHANGED <<head, mfVars>>

\* The walk to the least-significant clear bit of count;
\* tail = NULL stands for the address of the local pending
RECURSIVE list_sort_walk_front(_, _)
list_sort_walk_front(bits, tail) ==
    IF bits % 2 = 1
    THEN list_sort_walk_front(bits \div 2, NULL)
    ELSE [bits |-> bits, tail |-> tail]

RECURSIVE list_sort_walk(_, _)
list_sort_walk(bits, tail) ==
    IF bits % 2 = 1
    THEN list_sort_walk(bits \div 2, IF tail = NULL THEN pending ELSE prev[tail])
    ELSE [bits |-> bits, tail |-> tail]

\* if (likely(bits)): a merge is indicated when bits remain after the walk
list_sort_indicated_never(w) == FALSE

list_sort_indicated_if_skipped(w) == w.tail # NULL

list_sort_indicated(w) == w.bits # 0

\* One round of the main loop: the indicated merge, then one input element
list_sort_iter ==
    /\ pc = "loop"
    /\ LET w == list_sort_walk(count, NULL)
           a == IF w.tail = NULL THEN pending ELSE prev[w.tail]
           b == prev[a]
           m == merge(next, b, a)
           merged == list_sort_indicated(w)
           nx1 == IF merged THEN m.next ELSE next
           pv1 == IF merged
                  THEN LET p == [prev EXCEPT ![m.ret] = prev[b]]
                       IN IF w.tail = NULL THEN p
                          ELSE [p EXCEPT ![w.tail] = m.ret]
                  ELSE prev
           pend1 == IF merged /\ w.tail = NULL THEN m.ret ELSE pending
       IN /\ mergeArgs' = IF merged THEN <<Chain(next, b), Chain(next, a)>>
                          ELSE <<>>
          /\ prev' = [pv1 EXCEPT ![list] = pend1]
          /\ pending' = list
          /\ list' = nx1[list]
          /\ next' = [nx1 EXCEPT ![list] = NULL]
          /\ count' = count + 1
          /\ pc' = IF nx1[list] = NULL THEN "end" ELSE "loop"
    /\ UNCHANGED <<head, value, released, lastOp, descend, ret,
                   before, cmpHead, mfVars>>

\* End of input: list = pending; pending = pending->prev
list_sort_end ==
    /\ pc = "end"
    /\ list' = pending
    /\ pending' = prev[pending]
    /\ pc' = "final"
    /\ mergeArgs' = <<>>
    /\ UNCHANGED <<head, next, prev, value, released, lastOp,
                   descend, ret, before, cmpHead, count, mfVars>>

\* One round of the end loop
list_sort_end_merge ==
    /\ pc = "final"
    /\ prev[pending] # NULL
    /\ LET m == merge(next, pending, list)
       IN /\ next' = m.next
          /\ list' = m.ret
          /\ pending' = prev[pending]
          /\ mergeArgs' = <<Chain(next, pending), Chain(next, list)>>
    /\ UNCHANGED <<head, prev, value, released, lastOp, descend, ret,
                   before, cmpHead, pc, count, mfVars>>

\* The final merge and the return of list_sort
list_sort_final_plain ==
    /\ pc = "final"
    /\ prev[pending] = NULL
    /\ next' = merge(next, pending, list).next
    /\ mergeArgs' = <<Chain(next, pending), Chain(next, list)>>
    /\ pc' = "idle"
    /\ list' = NULL
    /\ pending' = NULL
    /\ count' = 0
    /\ UNCHANGED <<head, prev, value, released, lastOp, descend, ret,
                   before, cmpHead, mfVars>>

list_sort_final ==
    /\ pc = "final"
    /\ prev[pending] = NULL
    /\ LET h == merge_final([next |-> next, prev |-> prev], pending, list)
       IN /\ next' = h.next
          /\ prev' = h.prev
    /\ mergeArgs' = <<Chain(next, pending), Chain(next, list)>>
    /\ pc' = "idle"
    /\ list' = NULL
    /\ pending' = NULL
    /\ count' = 0
    /\ UNCHANGED <<head, value, released, lastOp, descend, ret,
                   before, cmpHead, mfVars>>

----------------------------------------------------------------------------
Next ==
    \/ q_new
    \/ q_free
    \/ \E s \in Values, ok \in BOOLEAN : q_insert_head(s, ok)
    \/ \E s \in Values, ok \in BOOLEAN : q_insert_tail(s, ok)
    \/ q_remove_head
    \/ q_remove_tail
    \/ q_size
    \/ q_delete_mid
    \/ \E garbage \in BOOLEAN : q_delete_dup(garbage)
    \/ q_swap
    \/ q_reverse
    \/ q_ascend
    \/ q_descend
    \/ \E d \in BOOLEAN : q_sort(d)
    \/ \E d \in BOOLEAN : list_sort_start(d)
    \/ list_sort_iter
    \/ list_sort_end
    \/ list_sort_end_merge
    \/ list_sort_final

Spec == Init /\ [][Next]_vars

\* list_sort is straight-line sequential code: once called, its next step
\* is taken
SpecLive ==
    /\ Spec
    /\ WF_vars(list_sort_iter)
    /\ WF_vars(list_sort_end)
    /\ WF_vars(list_sort_end_merge)
    /\ WF_vars(list_sort_final)
----------------------------------------------------------------------------
\* The tail-copy loop of merge_final, one iteration per step, on a merge
\* whose comparing loop has taken the first nodes 1..k and left the chain
\* k+1..MaxTail of the other run to be copied.
TailNodes == 0..MaxTail

CmpReturns == {-1, 0, 1}

\* The state after "tail->next = b": the ring built so far ends at tail = k;
\* the prev links of the chain still hold what the pending stack left there
InitTail ==
    /\ \E k \in 1..MaxTaken :
          /\ next = [n \in TailNodes |-> IF n = MaxTail THEN NULL ELSE n + 1]
          /\ prev = [n \in TailNodes |->
                        IF n = HEAD \/ n > k THEN NULL ELSE n - 1]
          /\ mf_tail = k
          /\ mf_b = k + 1
    /\ mf_count = 0
    /\ copied = 0
    /\ calls = <<>>
    /\ pc = "tail"
    /\ head = HEAD
    /\ value = [n \in Elems |-> 0]
    /\ released = [n \in Elems |-> 0]
    /\ lastOp = "list_sort"
    /\ descend = FALSE
    /\ ret = 0
    /\ before = <<>>
    /\ cmpHead = FALSE
    /\ list = NULL
    /\ pending = NULL
    /\ count = 0
    /\ mergeArgs = <<>>

\* ++count on a uint8_t
merge_final_incr_wide(c) == c + 1

merge_final_incr(c) == (c + 1) % 256

\* One iteration of the do-while: the checkpoint call when the counter
\* wraps, its value r dropped, then b->prev = tail; tail = b; b = b->next
merge_final_tail_step(r) ==
    /\ pc = "tail"
    /\ mf_count' = merge_final_incr(mf_count)
    /\ calls' = IF mf_count' = 0 THEN Append(calls, <<mf_b, mf_b, r>>)
                ELSE calls
    /\ prev' = [prev EXCEPT ![mf_b] = mf_tail]
    /\ mf_tail' = mf_b
    /\ mf_b' = next[mf_b]
    /\ copied' = copied + 1
    /\ pc' = IF next[mf_b] = NULL THEN "close" ELSE "tail"
    /\ UNCHANGED <<head, next, value, released, lastOp, descend, ret,
                   before, cmpHead, list, pending, count, mergeArgs>>

\* tail->next = head; head->prev = tail
merge_final_close ==
    /\ pc = "close"
    /\ next' = [next EXCEPT ![mf_tail] = HEAD]
    /\ prev' = [prev EXCEPT ![HEAD] = mf_tail]
    /\ pc' = "closed"
    /\ UNCHANGED <<head, value, released, lastOp, descend, ret, before,
                   cmpHead, list, pending, count, mergeArgs, mfVars>>

NextTail ==
    \/ \E r \in CmpReturns : merge_final_tail_step(r)
    \/ merge_final_close

SpecTail == InitTail /\ [][NextTail]_vars
----------------------------------------------------------------------------
\* Vocabulary of the properties

Range(s) == {s[i] : i \in 1..Len(s)}

Pos(s, x) == CHOOSE i \in 1..Len(s) : s[i] = x

RECURSIVE Closure(_)
Closure(S) ==
    LET T == (S \cup {next[n] : n \in S} \cup {prev[n] : n \in S}) \ {NULL}
    IN IF T = S THEN S ELSE Closure(T)

RECURSIVE NextK(_, _)
NextK(n, k) == IF k = 0 \/ n = NULL THEN n ELSE NextK(next[n], k - 1)

ReachesHead(n) == \E k \in 1..(MaxNodes + 1) : NextK(n, k) = HEAD

NonDecreasing(s) == \A i \in 1..(Len(s) - 1) : value[s[i]] <= value[s[i + 1]]

NonIncreasing(s) == \A i \in 1..(Len(s) - 1) : value[s[i]] >= value[s[i + 1]]

NoRepeat(s) == \A i, j \in 1..Len(s) : s[i] = s[j] => i = j

SameNodes(s, t) ==
    /\ Len(s) = Len(t)
    /\ Range(s) = Range(t)
    /\ NoRepeat(s)
    /\ NoRepeat(t)
    /\ \A v \in Values : Cardinality({i \in 1..Len(s) : value[s[i]] = v})
                         = Cardinality({i \in 1..Len(t) : value[t[i]] = v})

Stable(s, t) ==
    \A x, y \in Range(s) :
        (value[x] = value[y] /\ Pos(s, x) < Pos(s, y))
            => (x \in Range(t) /\ y \in Range(t) /\ Pos(t, x) < Pos(t, y))

Keep(s, Test(_)) == SelectSeq(s, Test)

Returned(op) == pc = "idle" /\ lastOp = op

----------------------------------------------------------------------------
\* C1: whenever no operation is in progress, every node of the ring (the
\* sentinel included) has non-null links with n.next.prev = n and
\* n.prev.next = n, and the sentinel is reachable from it along next.
RingInvariant ==
    (pc = "idle" /\ head # NULL) =>
        \A n \in Closure({HEAD}) :
            /\ next[n] # NULL
            /\ prev[n] # NULL
            /\ prev[next[n]] = n
            /\ next[prev[n]] = n
            /\ ReachesHead(n)

RingInvariantWitness ==
    /\ Returned("list_sort")
    /\ Len(Ring) >= 4
    /\ Ring # before

\* C2: after q_sort(head, false) the values read from head.next to head.prev
\* are non-decreasing and the ring holds exactly the nodes it held before.
QSortAscending ==
    (lastOp = "q_sort" /\ ~descend) =>
        /\ NonDecreasing(Ring)
        /\ SameNodes(before, Ring)

QSortAscendingWitness ==
    /\ lastOp = "q_sort"
    /\ ~descend
    /\ Len(before) >= 3
    /\ ~NonDecreasing(before)
    /\ value[before[1]] = value[before[3]]

\* C3: after q_sort(head, true) the values read from head.next to head.prev
\* are non-increasing and the ring holds exactly the nodes it held before.
QSortDescending ==
    (lastOp = "q_sort" /\ descend) =>
        /\ NonIncreasing(Ring)
        /\ SameNodes(before, Ring)

\* C4: q_sort keeps nodes of equal value in the order they had before.
QSortStable ==
    lastOp = "q_sort" => Stable(before, Ring)

\* C5: when list_sort returns, the ring holds exactly the nodes it held on
\* entry and cmp(x, y) <= 0 for every node x immediately followed by y.
ListSortCorrect ==
    Returned("list_sort") =>
        /\ SameNodes(before, Ring)
        /\ \A i \in 1..(Len(Ring) - 1) : cmp(Ring[i], Ring[i + 1]) <= 0

ListSortCorrectWitness ==
    /\ Returned("list_sort")
    /\ Len(before) >= 4
    /\ \E i \in 1..(Len(before) - 1) : cmp(before[i], before[i + 1]) > 0
    /\ Ring # before

\* C6: list_sort keeps nodes that compare equal in their order of entry, and
\* every merge and merge_final call gets as its first run only nodes that
\* were earlier in the input than every node of its second run.
ListSortStable ==
    /\ Returned("list_sort") => Stable(before, Ring)
    /\ (lastOp = "list_sort" /\ mergeArgs # <<>>) =>
         \A x \in Range(mergeArgs[1]), y \in Range(mergeArgs[2]) :
             Pos(before, x) < Pos(before, y)

ListSortStableWitness ==
    /\ Returned("list_sort")
    /\ Len(before) >= 4
    /\ mergeArgs # <<>>
    /\ Ring # before
    /\ \E i, j \in 1..Len(before) :
         i < j /\ value[before[i]] = value[before[j]]

\* C7: q_release_element is called exactly once for each node unlinked by
\* q_delete_mid, q_delete_dup, q_ascend, q_descend or q_free, never twice
\* for one node, never for a node that stays in the ring, and never by any
\* other operation.
Releasing == {"q_delete_mid", "q_delete_dup", "q_ascend", "q_descend", "q_free"}

ReleaseDiscipline ==
    /\ \A n \in Elems : released[n] <= 1
    /\ \A n \in Elems \ Range(before) : released[n] = 0
    /\ pc = "idle" => \A n \in Range(Ring) : released[n] = 0
    /\ lastOp \in Releasing =>
         \A n \in Range(before) \ Range(Ring) : released[n] = 1
    /\ lastOp \notin Releasing => \A n \in Elems : released[n] = 0

ReleaseDisciplineWitness ==
    /\ lastOp = "q_delete_dup"
    /\ Len(before) >= Len(Ring) + 2
    /\ Len(Ring) >= 1
    /\ \E n \in Range(before) : released[n] = 1

\* C8: on a value-sorted ring q_delete_dup keeps, in their order, exactly
\* the nodes whose value occurs once, and it never hands the sentinel to
\* strcmp.
Once(s, x) == Cardinality({i \in 1..Len(s) : value[s[i]] = value[x]}) = 1

DeleteDupExact ==
    lastOp = "q_delete_dup" =>
        /\ ~cmpHead
        /\ NonDecreasing(before) =>
             Ring = Keep(before, LAMBDA x : Once(before, x))

DeleteDupExactWitness ==
    /\ lastOp = "q_delete_dup"
    /\ NonDecreasing(before)
    /\ Len(before) >= 3
    /\ Len(Ring) = 1
    /\ value[before[Len(before)]] = value[before[Len(before) - 1]]

\* C9: q_ascend removes exactly the nodes that have a strictly smaller value
\* somewhere to their right, q_descend exactly those that have a strictly
\* greater value somewhere to their right; the others keep their order.
SmallerRight(s, x) ==
    \E j \in 1..Len(s) : j > Pos(s, x) /\ value[s[j]] < value[x]

GreaterRight(s, x) ==
    \E j \in 1..Len(s) : j > Pos(s, x) /\ value[s[j]] > value[x]

AscendDescendExact ==
    /\ lastOp = "q_ascend" =>
         Ring = Keep(before, LAMBDA x : ~SmallerRight(before, x))
    /\ lastOp = "q_descend" =>
         Ring = Keep(before, LAMBDA x : ~GreaterRight(before, x))

AscendDescendExactWitness ==
    /\ lastOp = "q_ascend"
    /\ Len(before) >= 4
    /\ Len(Ring) = 2
    /\ value[Ring[1]] = value[Ring[2]]
    /\ ~SmallerRight(before, before[1])

\* C10: on a ring of n >= 1 elements q_delete_mid unlinks and releases
\* exactly the node at 0-based position n \div 2, keeps the others in
\* order and returns true.
DeleteMidExact ==
    (lastOp = "q_delete_mid" /\ Len(before) >= 1) =>
        LET mid == before[(Len(before) \div 2) + 1]
        IN /\ ret = 1
           /\ Ring = Keep(before, LAMBDA x : x # mid)
           /\ \A n \in Elems : released[n] = IF n = mid THEN 1 ELSE 0

DeleteMidExactWitness ==
    /\ lastOp = "q_delete_mid"
    /\ Len(before) = 4
    /\ ret = 1

\* C11: q_swap turns x1,x2,...,xn into x2,x1,x4,x3,...; a trailing odd node
\* stays last; the nodes are the same and none is released.
SwapOf(s, i) ==
    IF i % 2 = 1 THEN (IF i = Len(s) THEN s[i] ELSE s[i + 1]) ELSE s[i - 1]

SwapExact ==
    lastOp = "q_swap" =>
        /\ Len(Ring) = Len(before)
        /\ \A i \in 1..Len(before) : Ring[i] = SwapOf(before, i)
        /\ SameNodes(before, Ring)
        /\ \A n \in Elems : released[n] = 0

SwapExactWitness ==
    /\ lastOp = "q_swap"
    /\ Len(before) = 5
    /\ Ring[4] = before[3]
    /\ Ring[5] = before[5]

\* C12: q_reverse turns x1..xn into xn..x1, the sentinel's next and prev
\* exchanged with the rest; a second q_reverse right after the first gives
\* back the node order the first one started from.
Reversed ==
    /\ Len(Ring) = Len(before)
    /\ \A i \in 1..Len(before) : Ring[i] = before[Len(before) + 1 - i]
    /\ \A n \in Elems : released[n] = 0
    /\ before # <<>> => (next[HEAD] = before[Len(before)] /\ prev[HEAD] = before[1])

\* Ring' is written in the handles the second call gave to Ring, so
\* Ring[Ring'[k]] is the k-th node after the second call in the handles of
\* the first.
ReversedBack ==
    /\ Len(Ring') = Len(before)
    /\ \A k \in 1..Len(before) :
           /\ Ring[Ring'[k]] = before[k]
           /\ value'[Ring'[k]] = value[before[k]]

ReverseInvolution ==
    [][lastOp' = "q_reverse" =>
          (Reversed' /\ (lastOp = "q_reverse" => ReversedBack))]_vars

ReverseInvolutionWitness ==
    /\ lastOp = "q_reverse"
    /\ Len(before) = 5
    /\ Ring = <<5, 4, 3, 2, 1>>
    /\ prev[HEAD] = 1
    /\ value[1] # value[5]

\* C13: on a value-sorted ring, a q_delete_dup right after a q_delete_dup
\* removes and releases nothing: the ring is the one the first call left.
DedupSecondRun ==
    /\ Len(Ring') = Len(Ring)
    /\ Ring' = before'
    /\ \A k \in 1..Len(Ring) : value'[Ring'[k]] = value[Ring[k]]
    /\ \A n \in Elems : released'[n] = 0

DedupIdempotent ==
    [][(lastOp = "q_delete_dup" /\ NonDecreasing(before)
            /\ lastOp' = "q_delete_dup") => DedupSecondRun]_vars

DedupIdempotentWitness ==
    /\ lastOp = "q_delete_dup"
    /\ NonDecreasing(before)
    /\ Len(before) = 4
    /\ Len(Ring) = 1
    /\ ret = 1

\* C14: with a null head the insertions return false, the removals return
\* NULL, q_size returns 0, q_delete_mid and q_delete_dup return false and
\* the reordering and filtering operations return, all without touching a
\* node; with an empty ring the removals, deletions, reorderings and filters
\* leave sentinel.next = sentinel.prev = sentinel, release nothing, and the
\* boolean ones return false.
NullOps ==
    {"q_insert_head", "q_insert_tail", "q_remove_head", "q_remove_tail",
     "q_size", "q_delete_mid", "q_delete_dup", "q_swap", "q_reverse",
     "q_sort", "q_ascend", "q_descend"}

EmptyOps ==
    {"q_remove_head", "q_remove_tail", "q_delete_mid", "q_delete_dup",
     "q_swap", "q_reverse", "q_sort", "q_ascend", "q_descend"}

Untouched ==
    /\ \A n \in Nodes : next[n] = NULL /\ prev[n] = NULL
    /\ \A n \in Elems : released[n] = 0

NullEmptyNoOp ==
    /\ (head = NULL /\ lastOp \in NullOps) =>
          /\ Untouched
          /\ lastOp \in {"q_insert_head", "q_insert_tail", "q_size",
                         "q_delete_mid", "q_delete_dup"} => ret = 0
          /\ lastOp \in {"q_remove_head", "q_remove_tail"} => ret = NULL
    /\ (head # NULL /\ lastOp \in EmptyOps /\ before = <<>>) =>
          /\ next[HEAD] = HEAD
          /\ prev[HEAD] = HEAD
          /\ \A n \in Elems : released[n] = 0
          /\ lastOp \in {"q_delete_mid", "q_delete_dup"} => ret = 0

NullEmptyNoOpWitness ==
    /\ head # NULL
    /\ lastOp = "q_remove_head"
    /\ before = <<>>
    /\ ret = NULL
    /\ next[HEAD] = HEAD

\* The pending stack: the first nodes of the runs, newest first, and the
\* run that starts at a node
PendingHeads == Chain(prev, pending)

Run(n) == Chain(next, n)

PowerOfTwo(n) == \E k \in 0..MaxNodes : n = 2 ^ k

Sorted(s) == \A i \in 1..(Len(s) - 1) : cmp(s[i], s[i + 1]) <= 0

RECURSIVE SumOfSizes(_)
SumOfSizes(hs) ==
    IF hs = <<>> THEN 0 ELSE Len(Run(Head(hs))) + SumOfSizes(Tail(hs))

\* C15: at the start of every round of the main loop, and when the input is
\* exhausted, every pending run is sorted and null-terminated, its size is a
\* power of two, there are at most two runs of each size, sizes do not
\* decrease from the front to the back, every run holds newer elements than
\* the runs behind it, and the sizes sum to count.
PendingInvariant ==
    (lastOp = "list_sort" /\ pc \in {"loop", "end"}) =>
        LET hs == PendingHeads
            I == 1..Len(hs)
        IN /\ \A i \in I :
                 /\ Sorted(Run(hs[i]))
                 /\ NoRepeat(Run(hs[i]))
                 /\ next[Run(hs[i])[Len(Run(hs[i]))]] = NULL
                 /\ PowerOfTwo(Len(Run(hs[i])))
           /\ \A i \in I :
                 Cardinality({j \in I : Len(Run(hs[j])) = Len(Run(hs[i]))}) <= 2
           /\ \A i, j \in I : i < j =>
                 /\ Len(Run(hs[i])) <= Len(Run(hs[j]))
                 /\ \A x \in Range(Run(hs[i])), y \in Range(Run(hs[j])) :
                        Pos(before, x) > Pos(before, y)
           /\ SumOfSizes(hs) = count

PendingInvariantWitness ==
    /\ lastOp = "list_sort"
    /\ pc = "loop"
    /\ count = 5
    /\ Len(PendingHeads) = 3
    /\ Len(Run(PendingHeads[2])) = 2
    /\ Len(Run(PendingHeads[3])) = 2

\* The state a round of the main loop leaves: count - 1 is the value the
\* round started with
AfterRound == lastOp = "list_sort" /\ pc \in {"loop", "end"} /\ count >= 1

RECURSIVE TrailingOnes(_)
TrailingOnes(c) == IF c % 2 = 1 THEN 1 + TrailingOnes(c \div 2) ELSE 0

Merged == mergeArgs # <<>>

\* The round merged the two runs behind k skipped runs into one run of
\* double size, and only then pushed the new element in front
MergedAtDepth(k) ==
    /\ Merged
    /\ Len(PendingHeads) >= k + 2
    /\ LET r == Run(PendingHeads[k + 2])
       IN /\ Range(r) = Range(mergeArgs[1]) \cup Range(mergeArgs[2])
          /\ Len(mergeArgs[1]) = Len(mergeArgs[2])
          /\ Len(r) = 2 * Len(mergeArgs[1])
          /\ before[count] \notin Range(r)
    /\ PendingHeads[1] = before[count]
    /\ Run(PendingHeads[1]) = <<before[count]>>

\* C16 as stated: whenever the walk of a round skipped at least one run (the
\* starting count has a trailing 1 bit), the round merges the two runs at
\* the depth where the walk stopped.
StepMergesWhenSkipped ==
    AfterRound =>
        (TrailingOnes(count - 1) >= 1 => MergedAtDepth(TrailingOnes(count - 1)))

\* C16: the walk skips one run per trailing 1 bit of count; the round merges
\* the two runs at that depth into one of double size, before the push,
\* exactly when bits remain above the first 0 bit, and merges nothing when
\* none remains.
StepMergesWhenBitsRemain ==
    AfterRound =>
        LET k == TrailingOnes(count - 1)
        IN /\ Merged <=> (count - 1) \div (2 ^ k) # 0
           /\ Merged => MergedAtDepth(k)

StepMergesWhenBitsRemainWitness ==
    /\ AfterRound
    /\ count = 6
    /\ MergedAtDepth(1)
    /\ Len(mergeArgs[1]) = 2

\* The state a merge of the end loop leaves, the nodes it merged, and the
\* nodes of the runs still waiting on the pending stack
AfterEndMerge == lastOp = "list_sort" /\ pc = "final" /\ Merged

MergedNodes == Range(mergeArgs[1]) \cup Range(mergeArgs[2])

WaitingNodes == UNION {Range(Run(PendingHeads[i])) : i \in 1..Len(PendingHeads)}

\* The last merge covered every node and closed the ring again
LastIsMergeFinal ==
    (Returned("list_sort") /\ Merged) =>
        /\ MergedNodes = Range(before)
        /\ Range(Ring) = Range(before)
        /\ prev[HEAD] = Ring[Len(Ring)]
        /\ \A i \in 1..(Len(Ring) - 1) : prev[Ring[i + 1]] = Ring[i]

\* C17 as stated: after the input is exhausted every merge combines the two
\* oldest pending runs (the back of the stack), until merge_final merges the
\* last two.
FinalMergesOldest ==
    /\ AfterEndMerge =>
          \A x \in MergedNodes, y \in WaitingNodes :
              Pos(before, x) < Pos(before, y)
    /\ LastIsMergeFinal

\* C17: after the input is exhausted every merge combines the two newest
\* pending runs (the front of the stack: the run merged so far and the next
\* older one), older runs still waiting behind them, until merge_final
\* merges the last two.
FinalMergesNewest ==
    /\ AfterEndMerge =>
          /\ WaitingNodes # {}
          /\ MergedNodes \cup WaitingNodes = Range(before)
          /\ \A x \in MergedNodes, y \in WaitingNodes :
                 Pos(before, x) > Pos(before, y)
          /\ Range(Run(list)) = MergedNodes
    /\ LastIsMergeFinal

FinalMergesNewestWitness ==
    /\ AfterEndMerge
    /\ Len(before) = 5
    /\ MergedNodes = {3, 4, 5}
    /\ WaitingNodes = {1, 2}

\* Input positions of the nodes of a run, and the interval lo..hi
Places(s) == {Pos(before, s[i]) : i \in 1..Len(s)}

Highest(S) == CHOOSE x \in S : \A y \in S : y <= x

\* C19: the round that starts with counter c = count - 1 merges nothing when
\* c + 1 is a power of two, and otherwise merges once: two adjacent pending
\* runs of size s = 2^k each, k the position of the least-significant clear
\* bit of c.  Equivalently the pair is merged in the round that brings the
\* number of pending elements in front of it to s, which is when count
\* reaches an odd multiple of s.
MergeSchedule ==
    AfterRound =>
        LET s == 2 ^ TrailingOnes(count - 1)
        IN IF PowerOfTwo(count)
           THEN ~Merged
           ELSE /\ Merged
                /\ Len(mergeArgs[1]) = s
                /\ Len(mergeArgs[2]) = s
                /\ LET hi == Highest(Places(mergeArgs[2]))
                   IN /\ Places(mergeArgs[2]) = (hi - s + 1)..hi
                      /\ Places(mergeArgs[1]) = (hi - 2 * s + 1)..(hi - s)
                      /\ count - hi = s
                /\ count % (2 * s) = s

MergeScheduleWitness ==
    /\ AfterRound
    /\ count = 5
    /\ Merged
    /\ MergedNodes = {3, 4}
    /\ Len(PendingHeads) = 3

\* C20: in every merge after the input is exhausted (the merges of the end
\* loop and the closing merge_final) the larger run has at most twice as
\* many nodes as the smaller.
AfterFinalPhaseMerge ==
    lastOp = "list_sort" /\ pc \in {"final", "idle"} /\ Merged

FinalMergesBalanced ==
    AfterFinalPhaseMerge =>
        /\ Len(mergeArgs[1]) <= 2 * Len(mergeArgs[2])
        /\ Len(mergeArgs[2]) <= 2 * Len(mergeArgs[1])

FinalMergesBalancedWitness ==
    /\ Returned("list_sort")
    /\ Merged
    /\ Len(before) = 6
    /\ Len(mergeArgs[1]) = 4
    /\ Len(mergeArgs[2]) = 2

\* The pending entries the walk of the coming round steps through: one per
\* trailing 1 bit of count, from the front
WalkSteps == 1..TrailingOnes(count)

\* The run the coming round would hand to merge as its second argument
\* (*tail once the walk has stopped), NULL when the stack ends before it
MergeA ==
    LET k == TrailingOnes(count)
    IN IF Len(PendingHeads) >= k + 1 THEN PendingHeads[k + 1] ELSE NULL

\* C23: for a ring of two or more elements, the walk of every round steps
\* only through non-null pending entries; when the round takes the merge
\* branch, *tail and (*tail)->prev are non-null; when the input is exhausted
\* at least two runs are pending; merge and merge_final only ever get two
\* non-empty runs.  For a ring of zero or one element list_sort returns with
\* no merge done and no link written.
NoNullRun ==
    /\ (lastOp = "list_sort" /\ pc = "loop") =>
          /\ list # NULL
          /\ \A j \in WalkSteps :
                 Len(PendingHeads) >= j /\ PendingHeads[j] # NULL
          /\ list_sort_indicated(list_sort_walk(count, NULL)) =>
                 /\ MergeA # NULL
                 /\ prev[MergeA] # NULL
    /\ (lastOp = "list_sort" /\ pc = "end") =>
          /\ pending # NULL
          /\ prev[pending] # NULL
    /\ (lastOp = "list_sort" /\ pc = "final") =>
          /\ pending # NULL
          /\ list # NULL
    /\ (lastOp = "list_sort" /\ Merged) =>
          /\ mergeArgs[1] # <<>>
          /\ mergeArgs[2] # <<>>
    /\ (lastOp = "list_sort" /\ Len(before) <= 1) =>
          /\ pc = "idle"
          /\ ~Merged
          /\ Ring = before
          /\ \A n \in Range(before) \cup {HEAD} :
                 next[prev[n]] = n /\ prev[next[n]] = n

NoNullRunWitness ==
    /\ lastOp = "list_sort"
    /\ pc = "loop"
    /\ count = 5
    /\ MergeA = PendingHeads[2]
    /\ prev[MergeA] = PendingHeads[3]
    /\ list_sort_indicated(list_sort_walk(count, NULL))

\* The node the tail-copy loop passed in its j-th iteration
Copied(j) == mf_tail - copied + j

\* C21: in the tail-copy loop the 8-bit counter goes up modulo 256, cmp(b, b)
\* is called on exactly the iterations where it wraps to 0 (every 256th
\* node), and whatever those calls return the ring comes out the same:
\* the nodes in chain order, next and prev agreeing, closed on the sentinel.
CheckpointHarmless ==
    /\ mf_count = copied % 256
    /\ Len(calls) = copied \div 256
    /\ \A i \in 1..Len(calls) :
           /\ calls[i][1] = Copied(256 * i)
           /\ calls[i][2] = Copied(256 * i)
    /\ \A j \in 1..copied : prev[Copied(j)] = Copied(j) - 1
    /\ pc = "closed" =>
           /\ copied = MaxTail - Copied(0)
           /\ \A n \in TailNodes :
                  /\ next[n] = (IF n = MaxTail THEN HEAD ELSE n + 1)
                  /\ prev[n] = (IF n = HEAD THEN MaxTail ELSE n - 1)

CheckpointHarmlessWitness ==
    /\ pc = "closed"
    /\ Len(calls) = 2
    /\ calls[1][3] # calls[2][3]
    /\ next[MaxTail] = HEAD
    /\ prev[HEAD] = MaxTail

\* The split of q_mergeSort on the chain of the first m nodes of the ring:
\* slow stops inside the chain with a node after it, so both halves are
\* non-empty and shorter than the chain
SplitProper(m) ==
    LET nx == [Entry.next EXCEPT ![m] = NULL]
        slow == q_mergeSort_slow(nx, 1, nx[1])
    IN /\ slow \in 1..(m - 1)
       /\ nx[slow] # NULL

\* A heap an operation can return: every link a handle or NULL, every
\* release count a number
IsHeap(h) ==
    /\ h.next \in [Nodes -> Nodes \cup {NULL}]
    /\ h.prev \in [Nodes -> Nodes \cup {NULL}]
    /\ h.released \in [Elems -> 0..MaxNodes]

\* Every loop and recursion of the operations, run on the non-empty ring
\* of this state, comes to its end and hands back a heap
Returns ==
    /\ IsHeap(q_delete_mid_heap(Entry))
    /\ \A g \in BOOLEAN : IsHeap(q_delete_dup_heap(Entry, g))
    /\ IsHeap(q_swap_loop(Entry, Entry.next[HEAD]))
    /\ IsHeap(q_reverse_loop(Entry, Entry.prev[HEAD], HEAD))
    /\ \A d \in BOOLEAN : IsHeap(q_sort_heap(Entry, d))
    /\ IsHeap(q_ascend_loop(Entry, Entry.prev[HEAD]))
    /\ IsHeap(q_descend_loop(Entry, Entry.prev[HEAD]))

\* C22: on every ring, q_delete_mid, q_delete_dup, q_swap, q_reverse, q_sort,
\* q_ascend, q_descend and list_sort return once called; the split of
\* q_mergeSort gives two non-empty halves for every chain of two or more
\* nodes; a list_sort that has started always reaches its return.
Termination ==
    /\ [](pc = "idle" /\ Ring # <<>> =>
            /\ \A m \in 2..Len(Ring) : SplitProper(m)
            /\ Returns)
    /\ (pc # "idle") ~> Returned("list_sort")

TerminationWitness ==
    /\ Returned("list_sort")
    /\ Len(before) = 6
    /\ Merged
    /\ \E i \in 1..5 : value[Ring[i]] < value[Ring[i + 1]]
====
